---- MODULE Spec2Model ----
(***************************************************************************)
(* Model of src/src/App.js: the App component of react-card-effects.       *)
(*                                                                         *)
(* The component state (useState / useRef cells), the browser's table of   *)
(* active timers, the requests in flight to the deck-of-cards API and the  *)
(* deck held by that API are the state.  Every event handler, timer        *)
(* callback and continuation after an `await` is one action.               *)
(*                                                                         *)
(* drawCard is a closure created by a render of App; setInterval keeps the *)
(* closure of the render in which handleDraw ran, so a tick reads the      *)
(* `remaining` of that render.  The interval timer therefore carries the   *)
(* captured value.                                                         *)
(***************************************************************************)
EXTENDS Integers, Sequences, FiniteSets, Bags, TLC

\* Bounds of the model.
DeckSize == 2        \* cards in a freshly shuffled remote deck
MaxInFlight == 1     \* draw requests simultaneously in flight

\* Program constants.
NoTimer == 0         \* useRef(null): no timer id stored
NoImage == 0         \* useState(null) for cardImage
PollPeriod == 1000   \* setInterval(drawCard, 1000)
HideDelay == 3000    \* setTimeout(..., 3000)
NormalSpeed == 1000
FastSpeed == 500
NoDeck == "unset"    \* useState(null) for deckId
TheDeck == "deck"    \* the deck_id of the new-deck response
NoError == "none"    \* useState(null) for error

MsgFetch == "Failed to fetch deck."
MsgExhausted == "Error: no cards remaining!"
MsgInvalid == "Error: Invalid API response."
MsgEmpty == "Error: No cards available."
MsgDraw == "Failed to draw card."
MsgShuffle == "Failed to shuffle deck."

VARIABLES
    fetchDeck,            \* position of the mount effect: "pending", "ok", "failed"
    deckId, remaining, cardImage, error, errorMessageVisible,
    isShuffling, isDrawing, shuffleSpeed,
    intervalRef, errorTimeoutRef,
    timers,               \* the browser's active timers (intervals and timeouts)
    draws,                \* the bag of draw requests in flight (responses arrive
                          \* in any order); `by` is NoTimer, or in SpecTagged
                          \* the id of the interval timer whose tick sent the
                          \* request until that timer is cancelled
    shuffles,             \* shuffle requests in flight, in the order of issue
    serverRemaining,      \* cards left in the deck held by the remote API
    drawsIssued,          \* number of draw requests sent so far (saturating)
    lastStep              \* the step taken last (handler branch or reply of the API)

vars == <<fetchDeck, deckId, remaining, cardImage, error, errorMessageVisible,
          isShuffling, isDrawing, shuffleSpeed, intervalRef, errorTimeoutRef,
          timers, draws, shuffles, serverRemaining, drawsIssued, lastStep>>

DrawsCap == DeckSize + 1

----------------------------------------------------------------------------
\* The browser's timer table.  setInterval and setTimeout draw their ids from
\* one pool and never hand out an id twice; only equality of ids matters, so a
\* new id is any id that is neither active nor still stored in a ref.

Intervals == {t \in timers : t.kind = "interval"}
Timeouts == {t \in timers : t.kind = "timeout"}

UsedIds(tm, refs) == {t.id : t \in tm} \cup (refs \ {NoTimer})

FreshId(tm, refs) ==
    CHOOSE i \in 1..(Cardinality(UsedIds(tm, refs)) + 1) : i \notin UsedIds(tm, refs)

\* clearInterval(id) / clearTimeout(id): a no-op for null or an id not active
ClearTimer(tm, id) == {t \in tm : t.id # id}

\* the requests in flight once the timer table is tm: a request sent by a
\* timer that is no longer active belongs to a polling session that has ended
Retire(d, tm) == IF \E t \in tm : t.id = d.by THEN d ELSE [d EXCEPT !.by = NoTimer]

RECURSIVE Copies(_, _)
Copies(S, ds) ==
    IF S = {} THEN 0
    ELSE LET d == CHOOSE x \in S : TRUE
         IN  CopiesIn(d, ds) + Copies(S \ {d}, ds)

Orphan(ds, tm) ==
    [x \in {Retire(d, tm) : d \in BagToSet(ds)} |->
        Copies({d \in BagToSet(ds) : Retire(d, tm) = x}, ds)]

\* one request leaves / joins the bag of requests in flight
Take(ds, d) == ds (-) SetToBag({d})
Put(ds, d) == ds (+) SetToBag({d})

\* ScheduleHide that cancels the pending hide timeout and sets no new one
ScheduleHide_CancelOnly(tm, iref, eref) ==
    [timers |-> ClearTimer(tm, eref), ref |-> NoTimer]

\* ScheduleHide without the clearTimeout of the pending hide timeout
ScheduleHide_NoCancel(tm, iref, eref) ==
    LET id == FreshId(tm, {iref, eref})
    IN  [timers |-> tm \cup {[id |-> id, kind |-> "timeout",
                               delay |-> HideDelay, remaining |-> 0]},
         ref |-> id]

\* errorTimeoutRef.current = setTimeout(() => setErrorMessageVisible(false), 3000)
\* preceded by clearTimeout(errorTimeoutRef.current); yields the new table and ref
ScheduleHide(tm, iref, eref) ==
    LET cleared == ClearTimer(tm, eref)
        id == FreshId(tm, {iref, eref})
    IN  [timers |-> cleared \cup {[id |-> id, kind |-> "timeout",
                                    delay |-> HideDelay, remaining |-> 0]},
         ref |-> id]

\* the controls rendered without the deckId gate
ControlsRendered_Ungated == TRUE

\* the controls are rendered only inside {deckId && (...)}
ControlsRendered == deckId # NoDeck

----------------------------------------------------------------------------
Init ==
    /\ fetchDeck = "pending"
    /\ deckId = NoDeck
    /\ remaining = 0
    /\ cardImage = NoImage
    /\ error = NoError
    /\ errorMessageVisible = FALSE
    /\ isShuffling = FALSE
    /\ isDrawing = FALSE
    /\ shuffleSpeed = NormalSpeed
    /\ intervalRef = NoTimer
    /\ errorTimeoutRef = NoTimer
    /\ timers = {}
    /\ draws = EmptyBag
    /\ shuffles = <<>>
    /\ serverRemaining = 0
    /\ drawsIssued = 0
    /\ lastStep = "mount"

\* fetchDeck, lines 26-29: the new-deck response arrives
FetchDeckOk ==
    /\ fetchDeck = "pending"
    /\ fetchDeck' = "ok"
    /\ serverRemaining' = DeckSize
    /\ deckId' = TheDeck
    /\ remaining' = DeckSize
    /\ lastStep' = "FetchDeckOk"
    /\ UNCHANGED <<cardImage, error, errorMessageVisible, isShuffling, isDrawing,
                   shuffleSpeed, intervalRef, errorTimeoutRef, timers, draws,
                   shuffles, drawsIssued>>

\* fetchDeck, lines 30-33: fetch or response.json() throws
FetchDeckFails ==
    /\ fetchDeck = "pending"
    /\ fetchDeck' = "failed"
    /\ error' = MsgFetch
    /\ lastStep' = "FetchDeckFails"
    /\ UNCHANGED <<deckId, remaining, cardImage, errorMessageVisible, isShuffling,
                   isDrawing, shuffleSpeed, intervalRef, errorTimeoutRef, timers,
                   draws, shuffles, serverRemaining, drawsIssued>>

----------------------------------------------------------------------------
\* handleDraw that takes the period of the timer from the speed preference
HandleDrawOp_UsesSpeed(ps, eref, rem) ==
    IF ps.intervalRef # NoTimer
    THEN [intervalRef |-> NoTimer,
          timers |-> ClearTimer(ps.timers, ps.intervalRef),
          isDrawing |-> FALSE]
    ELSE LET id == FreshId(ps.timers, {ps.intervalRef, eref})
         IN  [intervalRef |-> id,
              timers |-> ps.timers \cup {[id |-> id, kind |-> "interval",
                                          delay |-> shuffleSpeed, remaining |-> rem]},
              isDrawing |-> TRUE]

\* handleDraw that forgets clearInterval when it stops polling
HandleDrawOp_NoClear(ps, eref, rem) ==
    IF ps.intervalRef # NoTimer
    THEN [intervalRef |-> NoTimer, timers |-> ps.timers, isDrawing |-> FALSE]
    ELSE LET id == FreshId(ps.timers, {ps.intervalRef, eref})
         IN  [intervalRef |-> id,
              timers |-> ps.timers \cup {[id |-> id, kind |-> "interval",
                                          delay |-> PollPeriod, remaining |-> rem]},
              isDrawing |-> TRUE]

\* handleDraw, lines 116-125, as a function of the polling state
\* ps = [intervalRef, timers, isDrawing]; rem is the `remaining` of the render
\* whose drawCard closure is handed to setInterval.
HandleDrawOp(ps, eref, rem) ==
    IF ps.intervalRef # NoTimer
    THEN [intervalRef |-> NoTimer,
          timers |-> ClearTimer(ps.timers, ps.intervalRef),
          isDrawing |-> FALSE]
    ELSE LET id == FreshId(ps.timers, {ps.intervalRef, eref})
         IN  [intervalRef |-> id,
              timers |-> ps.timers \cup {[id |-> id, kind |-> "interval",
                                          delay |-> PollPeriod, remaining |-> rem]},
              isDrawing |-> TRUE]

PollingState == [intervalRef |-> intervalRef, timers |-> timers, isDrawing |-> isDrawing]

\* click on the Start/Stop Drawing button
HandleDraw ==
    /\ ControlsRendered
    /\ LET r == HandleDrawOp(PollingState, errorTimeoutRef, remaining)
       IN  /\ intervalRef' = r.intervalRef
           /\ timers' = r.timers
           /\ isDrawing' = r.isDrawing
           /\ draws' = Orphan(draws, r.timers)
    /\ lastStep' = "HandleDraw"
    /\ UNCHANGED <<fetchDeck, deckId, remaining, cardImage, error, errorMessageVisible,
                   isShuffling, shuffleSpeed, errorTimeoutRef, shuffles,
                   serverRemaining, drawsIssued>>

\* handleShuffleSpeed, lines 130-132
HandleShuffleSpeed ==
    /\ ControlsRendered
    /\ shuffleSpeed' = IF shuffleSpeed = NormalSpeed THEN FastSpeed ELSE NormalSpeed
    /\ lastStep' = "HandleShuffleSpeed"
    /\ UNCHANGED <<fetchDeck, deckId, remaining, cardImage, error, errorMessageVisible,
                   isShuffling, isDrawing, intervalRef, errorTimeoutRef, timers,
                   draws, shuffles, serverRemaining, drawsIssued>>

\* the error branches without clearInterval(intervalRef.current)
StopAndScheduleHide_NoStop(tm, iref, eref) == ScheduleHide(tm, iref, eref)

\* lines 47-52, 69-74, 80-85: clearInterval(intervalRef.current);
\* intervalRef.current = null; clearTimeout(errorTimeoutRef.current);
\* errorTimeoutRef.current = setTimeout(...)
StopAndScheduleHide(tm, iref, eref) ==
    ScheduleHide(ClearTimer(tm, iref), NoTimer, eref)

\* drawCard, lines 43-54: a tick whose closure holds remaining === 0
TickExhausted(t) ==
    /\ t.remaining = 0
    /\ error' = MsgExhausted
    /\ errorMessageVisible' = TRUE
    /\ isDrawing' = FALSE
    /\ LET r == StopAndScheduleHide(timers, intervalRef, errorTimeoutRef)
       IN  /\ timers' = r.timers
           /\ errorTimeoutRef' = r.ref
           /\ draws' = Orphan(draws, r.timers)
    /\ intervalRef' = NoTimer
    /\ lastStep' = "TickExhausted"
    /\ UNCHANGED <<fetchDeck, deckId, remaining, cardImage, isShuffling, shuffleSpeed,
                   shuffles, serverRemaining, drawsIssued>>

\* drawCard, lines 56-57: a tick whose closure holds remaining !== 0 sends a
\* draw request and suspends at the await
SendDraw(t, tag) ==
    /\ t.remaining # 0
    /\ BagCardinality(draws) < MaxInFlight
    /\ draws' = Put(draws, [stage |-> "sent", image |-> NoImage, remaining |-> 0,
                            by |-> tag])
    /\ drawsIssued' = IF drawsIssued < DrawsCap THEN drawsIssued + 1 ELSE DrawsCap
    /\ lastStep' = "TickFetch"
    /\ UNCHANGED <<fetchDeck, deckId, remaining, cardImage, error, errorMessageVisible,
                   isShuffling, isDrawing, shuffleSpeed, intervalRef, errorTimeoutRef,
                   timers, shuffles, serverRemaining>>

TickFetch(t) == SendDraw(t, NoTimer)

\* the same request, recorded together with the timer that sent it
TickFetchTagged(t) == SendDraw(t, t.id)

\* the interval timer fires and calls the drawCard it was created with
Tick == \E t \in Intervals : TickExhausted(t) \/ TickFetch(t)

TickTagged == \E t \in Intervals : TickExhausted(t) \/ TickFetchTagged(t)

RemoveAt(s, i) == SubSeq(s, 1, i - 1) \o SubSeq(s, i + 1, Len(s))

\* GET /deck/{deck_id}/draw/?count=1 handled by the remote API: one card of
\* the deck while cards remain, otherwise an empty card list
ServerDraw(d) ==
    /\ d.stage = "sent"
    /\ IF serverRemaining > 0
       THEN /\ draws' = Put(Take(draws, d), [stage |-> "cards",
                                             image |-> serverRemaining,
                                             remaining |-> serverRemaining - 1,
                                             by |-> d.by])
            /\ serverRemaining' = serverRemaining - 1
       ELSE /\ draws' = Put(Take(draws, d), [stage |-> "empty", image |-> NoImage,
                                             remaining |-> 0, by |-> d.by])
            /\ UNCHANGED serverRemaining
    /\ lastStep' = "ServerDraw"
    /\ UNCHANGED <<fetchDeck, deckId, remaining, cardImage, error, errorMessageVisible,
                   isShuffling, isDrawing, shuffleSpeed, intervalRef, errorTimeoutRef,
                   timers, shuffles, drawsIssued>>

\* the reply is JSON without a `cards` field
ServerMalformed(d) ==
    /\ d.stage = "sent"
    /\ draws' = Put(Take(draws, d), [stage |-> "malformed", image |-> NoImage,
                                     remaining |-> 0, by |-> d.by])
    /\ lastStep' = "ServerMalformed"
    /\ UNCHANGED <<fetchDeck, deckId, remaining, cardImage, error, errorMessageVisible,
                   isShuffling, isDrawing, shuffleSpeed, intervalRef, errorTimeoutRef,
                   timers, shuffles, serverRemaining, drawsIssued>>

\* the success branch without setCardImage
DrawSuccess_KeepsImage(d) ==
    /\ d.stage = "cards"
    /\ remaining' = d.remaining
    /\ draws' = Take(draws, d)
    /\ lastStep' = "DrawSuccess"
    /\ UNCHANGED <<fetchDeck, deckId, cardImage, error, errorMessageVisible, isShuffling,
                   isDrawing, shuffleSpeed, intervalRef, errorTimeoutRef, timers,
                   shuffles, serverRemaining, drawsIssued>>

\* the success branch counting down locally instead of taking data.remaining
DrawSuccess_LocalDecrement(d) ==
    /\ d.stage = "cards"
    /\ cardImage' = d.image
    /\ remaining' = IF remaining > 0 THEN remaining - 1 ELSE 0
    /\ draws' = Take(draws, d)
    /\ lastStep' = "DrawSuccess"
    /\ UNCHANGED <<fetchDeck, deckId, error, errorMessageVisible, isShuffling, isDrawing,
                   shuffleSpeed, intervalRef, errorTimeoutRef, timers, shuffles,
                   serverRemaining, drawsIssued>>

\* drawCard, lines 60-62: data.cards.length > 0
DrawSuccess(d) ==
    /\ d.stage = "cards"
    /\ cardImage' = d.image
    /\ remaining' = d.remaining
    /\ draws' = Take(draws, d)
    /\ lastStep' = "DrawSuccess"
    /\ UNCHANGED <<fetchDeck, deckId, error, errorMessageVisible, isShuffling, isDrawing,
                   shuffleSpeed, intervalRef, errorTimeoutRef, timers, shuffles,
                   serverRemaining, drawsIssued>>

\* drawCard, lines 65-74: !data.cards
DrawMalformed(d) ==
    /\ d.stage = "malformed"
    /\ error' = MsgInvalid
    /\ errorMessageVisible' = TRUE
    /\ LET r == StopAndScheduleHide(timers, intervalRef, errorTimeoutRef)
       IN  /\ timers' = r.timers
           /\ errorTimeoutRef' = r.ref
           /\ draws' = Orphan(Take(draws, d), r.timers)
    /\ intervalRef' = NoTimer
    /\ lastStep' = "DrawMalformed"
    /\ UNCHANGED <<fetchDeck, deckId, remaining, cardImage, isShuffling, isDrawing,
                   shuffleSpeed, shuffles, serverRemaining, drawsIssued>>

\* the empty-card-list branch showing its message without stopping polling
DrawEmpty_KeepsPolling(d) ==
    /\ d.stage = "empty"
    /\ error' = MsgEmpty
    /\ errorMessageVisible' = TRUE
    /\ LET r == ScheduleHide(timers, intervalRef, errorTimeoutRef)
       IN  /\ timers' = r.timers
           /\ errorTimeoutRef' = r.ref
    /\ draws' = Take(draws, d)
    /\ lastStep' = "DrawEmpty"
    /\ UNCHANGED <<fetchDeck, deckId, remaining, cardImage, isShuffling, isDrawing,
                   shuffleSpeed, intervalRef, shuffles, serverRemaining, drawsIssued>>

\* drawCard, lines 75-86: data.cards.length === 0
DrawEmpty(d) ==
    /\ d.stage = "empty"
    /\ error' = MsgEmpty
    /\ errorMessageVisible' = TRUE
    /\ isDrawing' = FALSE
    /\ LET r == StopAndScheduleHide(timers, intervalRef, errorTimeoutRef)
       IN  /\ timers' = r.timers
           /\ errorTimeoutRef' = r.ref
           /\ draws' = Orphan(Take(draws, d), r.timers)
    /\ intervalRef' = NoTimer
    /\ lastStep' = "DrawEmpty"
    /\ UNCHANGED <<fetchDeck, deckId, remaining, cardImage, isShuffling, shuffleSpeed,
                   shuffles, serverRemaining, drawsIssued>>

\* the catch branch stopping polling like the other error branches
DrawFails_StopsPolling(d) ==
    /\ error' = MsgDraw
    /\ isDrawing' = FALSE
    /\ timers' = ClearTimer(timers, intervalRef)
    /\ intervalRef' = NoTimer
    /\ draws' = Orphan(Take(draws, d), ClearTimer(timers, intervalRef))
    /\ lastStep' = "DrawFails"
    /\ UNCHANGED <<fetchDeck, deckId, remaining, cardImage, errorMessageVisible,
                   isShuffling, shuffleSpeed, errorTimeoutRef, shuffles,
                   serverRemaining, drawsIssued>>

\* drawCard, lines 89-92: fetch or response.json() throws
DrawFails(d) ==
    /\ error' = MsgDraw
    /\ draws' = Take(draws, d)
    /\ lastStep' = "DrawFails"
    /\ UNCHANGED <<fetchDeck, deckId, remaining, cardImage, errorMessageVisible,
                   isShuffling, isDrawing, shuffleSpeed, intervalRef, errorTimeoutRef,
                   timers, shuffles, serverRemaining, drawsIssued>>

\* the continuation of drawCard after the await
DrawCompletes ==
    \E d \in BagToSet(draws) :
        DrawSuccess(d) \/ DrawMalformed(d) \/ DrawEmpty(d) \/ DrawFails(d)

ServerAnswersDraw == \E d \in BagToSet(draws) : ServerDraw(d) \/ ServerMalformed(d)

\* the Shuffle Deck button without disabled={isShuffling}
ShuffleDeck_NotDisabled ==
    /\ ControlsRendered
    /\ isShuffling' = TRUE
    /\ shuffles' = Append(shuffles, [stage |-> "sent", remaining |-> 0])
    /\ lastStep' = "ShuffleDeck"
    /\ UNCHANGED <<fetchDeck, deckId, remaining, cardImage, error, errorMessageVisible,
                   isDrawing, shuffleSpeed, intervalRef, errorTimeoutRef, timers, draws,
                   serverRemaining, drawsIssued>>

\* shuffleDeck, lines 99-101: click on Shuffle Deck (disabled={isShuffling})
ShuffleDeck ==
    /\ ControlsRendered
    /\ ~isShuffling
    /\ isShuffling' = TRUE
    /\ shuffles' = Append(shuffles, [stage |-> "sent", remaining |-> 0])
    /\ lastStep' = "ShuffleDeck"
    /\ UNCHANGED <<fetchDeck, deckId, remaining, cardImage, error, errorMessageVisible,
                   isDrawing, shuffleSpeed, intervalRef, errorTimeoutRef, timers, draws,
                   serverRemaining, drawsIssued>>

\* GET /deck/{deck_id}/shuffle/ handled by the remote API: all cards return
\* to the deck and the reply reports the full count
ServerShuffle ==
    \E i \in 1..Len(shuffles) :
        /\ shuffles[i].stage = "sent"
        /\ shuffles' = [shuffles EXCEPT ![i] = [stage |-> "done", remaining |-> DeckSize]]
        /\ serverRemaining' = DeckSize
        /\ lastStep' = "ServerShuffle"
        /\ UNCHANGED <<fetchDeck, deckId, remaining, cardImage, error,
                       errorMessageVisible, isShuffling, isDrawing, shuffleSpeed,
                       intervalRef, errorTimeoutRef, timers, draws, drawsIssued>>

\* the success path of shuffleDeck without setCardImage(null)
ShuffleSuccess_KeepsImage ==
    \E i \in 1..Len(shuffles) :
        /\ shuffles[i].stage = "done"
        /\ remaining' = shuffles[i].remaining
        /\ isShuffling' = FALSE
        /\ shuffles' = RemoveAt(shuffles, i)
        /\ lastStep' = "ShuffleSuccess"
        /\ UNCHANGED <<fetchDeck, deckId, cardImage, error, errorMessageVisible,
                       isDrawing, shuffleSpeed, intervalRef, errorTimeoutRef, timers,
                       draws, serverRemaining, drawsIssued>>

\* shuffleDeck, lines 102-105
ShuffleSuccess ==
    \E i \in 1..Len(shuffles) :
        /\ shuffles[i].stage = "done"
        /\ remaining' = shuffles[i].remaining
        /\ cardImage' = NoImage
        /\ isShuffling' = FALSE
        /\ shuffles' = RemoveAt(shuffles, i)
        /\ lastStep' = "ShuffleSuccess"
        /\ UNCHANGED <<fetchDeck, deckId, error, errorMessageVisible, isDrawing,
                       shuffleSpeed, intervalRef, errorTimeoutRef, timers, draws,
                       serverRemaining, drawsIssued>>

\* shuffleDeck, lines 106-110: fetch or response.json() throws
ShuffleFails ==
    \E i \in 1..Len(shuffles) :
        /\ error' = MsgShuffle
        /\ isShuffling' = FALSE
        /\ shuffles' = RemoveAt(shuffles, i)
        /\ lastStep' = "ShuffleFails"
        /\ UNCHANGED <<fetchDeck, deckId, remaining, cardImage, errorMessageVisible,
                       isDrawing, shuffleSpeed, intervalRef, errorTimeoutRef, timers,
                       draws, serverRemaining, drawsIssued>>

\* lines 50-52, 72-74, 83-85: the hide callback of a pending timeout runs
HideFires ==
    \E t \in Timeouts :
        /\ errorMessageVisible' = FALSE
        /\ timers' = timers \ {t}
        /\ lastStep' = "HideFires"
        /\ UNCHANGED <<fetchDeck, deckId, remaining, cardImage, error, isShuffling,
                       isDrawing, shuffleSpeed, intervalRef, errorTimeoutRef, draws,
                       shuffles, serverRemaining, drawsIssued>>

Next ==
    \/ FetchDeckOk
    \/ FetchDeckFails
    \/ HandleDraw
    \/ HandleShuffleSpeed
    \/ Tick
    \/ ServerAnswersDraw
    \/ DrawCompletes
    \/ ShuffleDeck
    \/ ServerShuffle
    \/ ShuffleSuccess
    \/ ShuffleFails
    \/ HideFires

Spec == Init /\ [][Next]_vars

\* The program with every draw request recorded together with the interval
\* timer that sent it, to tell the responses of an ended polling session from
\* those of the running one.
NextTagged ==
    \/ FetchDeckOk
    \/ FetchDeckFails
    \/ HandleDraw
    \/ HandleShuffleSpeed
    \/ TickTagged
    \/ ServerAnswersDraw
    \/ DrawCompletes
    \/ ShuffleDeck
    \/ ServerShuffle
    \/ ShuffleSuccess
    \/ ShuffleFails
    \/ HideFires

SpecTagged == Init /\ [][NextTagged]_vars

TypeOK ==
    /\ fetchDeck \in {"pending", "ok", "failed"}
    /\ deckId \in {NoDeck, TheDeck}
    /\ remaining \in 0..DeckSize
    /\ cardImage \in 0..DeckSize
    /\ errorMessageVisible \in BOOLEAN
    /\ isShuffling \in BOOLEAN
    /\ isDrawing \in BOOLEAN
    /\ shuffleSpeed \in {NormalSpeed, FastSpeed}
    /\ IsABag(draws)
    /\ BagCardinality(draws) <= MaxInFlight
    /\ Len(shuffles) <= 1
    /\ serverRemaining \in 0..DeckSize
    /\ drawsIssued \in 0..DrawsCap

----------------------------------------------------------------------------
\* The scenario of spec section 8: on a session whose deck is full, polling
\* is started once, every draw request is answered by the remote API and its
\* response is handled before the next tick; no lost or malformed reply, no
\* manual stop, and no shuffle once polling has started.
NotStartedYet == intervalRef = NoTimer /\ drawsIssued = 0 /\ error \notin {MsgExhausted, MsgEmpty}

StartOnce == HandleDraw /\ NotStartedYet /\ shuffles = <<>>

ShuffleBeforeStart ==
    NotStartedYet /\ (ShuffleDeck \/ ServerShuffle \/ ShuffleSuccess \/ ShuffleFails)

TickInTurn == Tick /\ draws = EmptyBag

ServerDrawsInTurn == \E d \in BagToSet(draws) : ServerDraw(d)

DrawHandledInTurn == \E d \in BagToSet(draws) : DrawSuccess(d) \/ DrawEmpty(d)

NextScenario ==
    \/ FetchDeckOk
    \/ FetchDeckFails
    \/ ShuffleBeforeStart
    \/ StartOnce
    \/ TickInTurn
    \/ ServerDrawsInTurn
    \/ DrawHandledInTurn
    \/ HandleShuffleSpeed
    \/ HideFires

SpecScenario == Init /\ [][NextScenario]_vars

----------------------------------------------------------------------------
\* Every request is answered and its response is handled: no fetch rejects
\* and no response.json() throws once the deck exists.
DrawAnswered ==
    \E d \in BagToSet(draws) : DrawSuccess(d) \/ DrawMalformed(d) \/ DrawEmpty(d)

NextAnswered ==
    \/ FetchDeckOk
    \/ FetchDeckFails
    \/ HandleDraw
    \/ HandleShuffleSpeed
    \/ Tick
    \/ ServerAnswersDraw
    \/ DrawAnswered
    \/ ShuffleDeck
    \/ ServerShuffle
    \/ ShuffleSuccess
    \/ HideFires

SpecAnswered == Init /\ [][NextAnswered]_vars

----------------------------------------------------------------------------
\* The banner and the timers: every step that assigns errorMessageVisible,
\* a timer or a timer ref (mount, handleDraw, the ticks, the draw responses
\* and the hide timeout), scheduled so that a pending hide timeout fires.
NextBanner ==
    \/ FetchDeckOk
    \/ FetchDeckFails
    \/ HandleDraw
    \/ Tick
    \/ ServerAnswersDraw
    \/ DrawCompletes
    \/ HideFires

SpecBanner == Init /\ [][NextBanner]_vars /\ WF_vars(HideFires)

\* Polling runs left to themselves: polling is started by handleDraw and
\* never stopped by hand, shuffles happen only while no interval timer is
\* active and are over before polling starts, every draw request is answered
\* with a card or an empty card list and its response is handled.
IdleShuffle ==
    Intervals = {} /\ (ShuffleDeck \/ ServerShuffle \/ ShuffleSuccess \/ ShuffleFails)

StartPolling == HandleDraw /\ intervalRef = NoTimer /\ shuffles = <<>>

NextRun ==
    \/ FetchDeckOk
    \/ FetchDeckFails
    \/ IdleShuffle
    \/ StartPolling
    \/ Tick
    \/ ServerDrawsInTurn
    \/ DrawHandledInTurn
    \/ HandleShuffleSpeed
    \/ HideFires

SpecRun ==
    /\ Init /\ [][NextRun]_vars
    /\ WF_vars(Tick)
    /\ WF_vars(ServerDrawsInTurn)
    /\ WF_vars(DrawHandledInTurn)

----------------------------------------------------------------------------
\* Properties.

FailureSteps ==
    {"FetchDeckFails", "TickExhausted", "DrawMalformed", "DrawEmpty", "DrawFails",
     "ShuffleFails"}

FailureMessage(step) ==
    CASE step = "FetchDeckFails" -> MsgFetch
      [] step = "TickExhausted" -> MsgExhausted
      [] step = "DrawMalformed" -> MsgInvalid
      [] step = "DrawEmpty" -> MsgEmpty
      [] step = "DrawFails" -> MsgDraw
      [] step = "ShuffleFails" -> MsgShuffle

\* C1: in every reachable state the interval handle is set if and only if the
\* polling-active flag isDrawing is true.
C1_HandleSetIffDrawing == (intervalRef # NoTimer) <=> isDrawing

\* C2: a polling tick that runs drawCard while the stored remaining count is 0
\* sends no draw request and leaves polling inactive (timer cancelled, handle
\* cleared, flag false).
C2_TickAtZeroSendsNothing ==
    (lastStep \in {"TickFetch", "TickExhausted"} /\ remaining = 0) =>
        /\ lastStep = "TickExhausted"
        /\ Intervals = {}
        /\ intervalRef = NoTimer
        /\ ~isDrawing

\* C3: in the scenario (full deck of N = DeckSize cards, polling started once,
\* every draw answered and handled before the next tick) no more than N draw
\* requests are ever issued, and a tick that finds N requests already issued
\* takes the 'no cards remaining' branch.
C3_ExactlyNDrawRequests ==
    /\ drawsIssued <= DeckSize
    /\ (lastStep \in {"TickFetch", "TickExhausted"} /\ remaining = 0) =>
           (lastStep = "TickExhausted" /\ error = MsgExhausted /\ errorMessageVisible)

\* C4: immediately after any failure path has run, the banner is visible and
\* shows that failure's message.
C4_FailureShowsBanner ==
    lastStep \in FailureSteps =>
        (errorMessageVisible /\ error = FailureMessage(lastStep))

\* C5: a failure raised while the banner is visible replaces the message and
\* restarts the hide timer: afterwards the banner is visible with the new
\* message and the pending hide timeout is a newly scheduled one.
C5_NewErrorRestartsHideTimer ==
    [][(errorMessageVisible /\ lastStep' \in FailureSteps) =>
          /\ errorMessageVisible'
          /\ error' = FailureMessage(lastStep')
          /\ Timeouts' # {}
          /\ Timeouts' \cap Timeouts = {}]_vars

\* C6: a draw response without a card list, and one with an empty card list,
\* cancel the polling timer (no tick can fire) and show their message; a draw
\* request that fails leaves the timer table and the handle as they were, so
\* a running timer keeps ticking.
C6_DrawErrorPolicies ==
    /\ [](lastStep \in {"DrawMalformed", "DrawEmpty"} =>
            /\ Intervals = {}
            /\ intervalRef = NoTimer
            /\ ~ENABLED Tick
            /\ errorMessageVisible
            /\ error = FailureMessage(lastStep))
    /\ []((lastStep = "DrawFails" /\ Intervals # {}) => ENABLED Tick)
    /\ [][lastStep' = "DrawFails" => UNCHANGED <<timers, intervalRef>>]_vars

C6_Witness ==
    /\ lastStep = "DrawMalformed"
    /\ isDrawing
    /\ Intervals = {}
    /\ errorMessageVisible

\* C7: at most one interval timer is active, and an active interval timer is
\* the one intervalRef refers to.
C7_NoLeakedInterval ==
    /\ Cardinality(Intervals) <= 1
    /\ \A t \in Intervals : t.id = intervalRef

C7_Witness ==
    /\ lastStep = "HandleDraw"
    /\ Intervals # {}
    /\ error \in {MsgExhausted, MsgInvalid, MsgEmpty}

\* C8: in any reachable state with the controls rendered, two handleDraw
\* toggles in a row restore the active flag and the presence of a timer
\* handle, with at most one active interval timer after each toggle.
C8_TwoTogglesRestore ==
    LET once == HandleDrawOp(PollingState, errorTimeoutRef, remaining)
        twice == HandleDrawOp(once, errorTimeoutRef, remaining)
        NumIntervals(ps) == Cardinality({t \in ps.timers : t.kind = "interval"})
    IN  ControlsRendered =>
            /\ twice.isDrawing = isDrawing
            /\ (twice.intervalRef # NoTimer) <=> (intervalRef # NoTimer)
            /\ NumIntervals(once) <= 1
            /\ NumIntervals(twice) <= 1

\* C9: at most one hide timeout is pending, and a pending hide timeout is the
\* one errorTimeoutRef refers to.
C9_OneHideTimeout ==
    /\ Cardinality(Timeouts) <= 1
    /\ \A t \in Timeouts : t.id = errorTimeoutRef

C9_Witness ==
    /\ lastStep \in {"TickExhausted", "DrawMalformed", "DrawEmpty"}
    /\ Timeouts # {}
    /\ Intervals = {}

\* C10: after a failed initialization deckId is unset, and while deckId is
\* unset no control can be used, no timer exists and no draw or shuffle
\* request has been sent.
C10_NoDeckNoRequests ==
    /\ fetchDeck = "failed" => deckId = NoDeck
    /\ deckId = NoDeck =>
          /\ ~ENABLED (HandleDraw \/ ShuffleDeck \/ HandleShuffleSpeed \/ Tick)
          /\ timers = {}
          /\ draws = EmptyBag
          /\ shuffles = <<>>
          /\ drawsIssued = 0

C10_Witness == fetchDeck = "failed" /\ error = MsgFetch

\* C11: handling a draw response with a non-empty card list stores that
\* response's cards[0].image and remaining, and leaves the polling state and
\* the error banner as they were.
C11_DrawSuccessStoresResponse ==
    [][lastStep' = "DrawSuccess" =>
          /\ \E d \in BagToSet(draws) :
                /\ d.stage = "cards"
                /\ draws' = Take(draws, d)
                /\ cardImage' = d.image
                /\ remaining' = d.remaining
          /\ UNCHANGED <<isDrawing, intervalRef, timers, error, errorMessageVisible,
                         errorTimeoutRef>>]_vars

C11_Witness ==
    /\ lastStep = "DrawSuccess"
    /\ cardImage # NoImage
    /\ remaining < DeckSize
    /\ isDrawing

\* C12: a handled shuffle response unsets the card image and stores that
\* response's remaining; a failed shuffle leaves card image and remaining as
\* they were; both clear the busy flag.
C12_ShuffleOutcome ==
    [][/\ lastStep' = "ShuffleSuccess" =>
             /\ \E i \in 1..Len(shuffles) :
                   /\ shuffles[i].stage = "done"
                   /\ shuffles' = RemoveAt(shuffles, i)
                   /\ remaining' = shuffles[i].remaining
             /\ cardImage' = NoImage
             /\ ~isShuffling'
       /\ lastStep' = "ShuffleFails" =>
             /\ UNCHANGED <<cardImage, remaining>>
             /\ ~isShuffling']_vars

C12_Witness ==
    /\ lastStep = "ShuffleSuccess"
    /\ cardImage = NoImage
    /\ remaining = DeckSize
    /\ drawsIssued > 0
    /\ serverRemaining < DeckSize

\* C14: the active flag, the timer handle and the set of active interval
\* timers change only in handleDraw and in the 'no cards remaining',
\* missing-card-list and empty-card-list branches of drawCard; polling becomes
\* active only in handleDraw.
C14_PollingFrame ==
    [][/\ <<isDrawing, intervalRef, Intervals>>' # <<isDrawing, intervalRef, Intervals>> =>
             lastStep' \in {"HandleDraw", "TickExhausted", "DrawMalformed", "DrawEmpty"}
       /\ ((~isDrawing /\ isDrawing') \/ (intervalRef = NoTimer /\ intervalRef' # NoTimer)
             \/ (Intervals = {} /\ Intervals' # {})) =>
             lastStep' = "HandleDraw"]_vars

C14_Witness ==
    /\ lastStep = "DrawFails"
    /\ isDrawing
    /\ Intervals # {}

\* C15: the stored remaining count changes only when the new-deck response, a
\* draw response with cards or a shuffle response is handled, and the new
\* value is the remaining field of that response.
C15_RemainingFromResponses ==
    [][remaining' # remaining =>
          \/ lastStep' = "FetchDeckOk" /\ remaining' = serverRemaining'
          \/ /\ lastStep' = "DrawSuccess"
             /\ \E d \in BagToSet(draws) :
                   /\ d.stage = "cards"
                   /\ draws' = Take(draws, d)
                   /\ remaining' = d.remaining
          \/ /\ lastStep' = "ShuffleSuccess"
             /\ \E i \in 1..Len(shuffles) :
                   /\ shuffles[i].stage = "done"
                   /\ shuffles' = RemoveAt(shuffles, i)
                   /\ remaining' = shuffles[i].remaining]_vars

C15_Witness ==
    /\ lastStep = "DrawSuccess"
    /\ remaining # serverRemaining
    /\ shuffles = <<>>

\* C16: the speed preference is always 1000 or 500, handleShuffleSpeed flips
\* it and changes nothing else, and every interval timer has period 1000
\* whatever the preference is.
C16_SpeedPreferenceInert ==
    /\ [](shuffleSpeed \in {NormalSpeed, FastSpeed})
    /\ [](\A t \in Intervals : t.delay = PollPeriod)
    /\ [][lastStep' = "HandleShuffleSpeed" =>
             /\ shuffleSpeed' # shuffleSpeed
             /\ UNCHANGED <<fetchDeck, deckId, remaining, cardImage, error,
                            errorMessageVisible, isShuffling, isDrawing, intervalRef,
                            errorTimeoutRef, timers, draws, shuffles, serverRemaining,
                            drawsIssued>>]_vars

C16_Witness ==
    /\ shuffleSpeed = FastSpeed
    /\ lastStep = "HandleDraw"
    /\ \E t \in Intervals : t.delay = PollPeriod

\* C17: when every request is answered, then whenever no draw or shuffle
\* request is in flight the stored remaining count equals the count of the
\* deck held by the remote API.
C17_RemainingMatchesServer ==
    (deckId # NoDeck /\ draws = EmptyBag /\ shuffles = <<>>) => remaining = serverRemaining

\* C20: a draw response without cards (missing or empty card list) that
\* cancels an active interval timer answers a request sent by that timer: a
\* response to a request of an ended polling session cancels no timer.
C20_LateResponseSparesNewSession ==
    [][(lastStep' \in {"DrawMalformed", "DrawEmpty"} /\ Intervals' # Intervals) =>
          \E d \in BagToSet(draws) :
              /\ d.stage \in {"malformed", "empty"}
              /\ draws' = Orphan(Take(draws, d), timers')
              /\ d.by # NoTimer]_vars

\* C13: the Shuffle Deck button cannot be used while the busy flag is set, at
\* most one shuffle request is in flight, the busy flag is set exactly while
\* one is in flight, a request in flight can always be settled, and the step
\* that settles it (response handled or request rejected) clears the flag.
C13_ShuffleBusyFlag ==
    /\ isShuffling => ~ENABLED ShuffleDeck
    /\ Len(shuffles) <= 1
    /\ isShuffling <=> shuffles # <<>>
    /\ isShuffling => ENABLED (ServerShuffle \/ ShuffleSuccess \/ ShuffleFails)
    /\ lastStep \in {"ShuffleSuccess", "ShuffleFails"} => ~isShuffling

C13_Witness ==
    /\ lastStep = "ShuffleFails"
    /\ ~isShuffling
    /\ shuffles = <<>>
    /\ draws # EmptyBag

\* C18: a visible banner always has a hide timeout pending, and when pending
\* timeouts fire every visible banner is eventually hidden.
C18_BannerEventuallyHidden ==
    /\ [](errorMessageVisible => Timeouts # {})
    /\ (errorMessageVisible ~> ~errorMessageVisible)

C18_Witness ==
    /\ lastStep = "HideFires"
    /\ ~errorMessageVisible
    /\ error \in {MsgExhausted, MsgInvalid, MsgEmpty}
    /\ Intervals # {}

\* C19: in a polling run left to itself (no manual stop, no shuffle, every
\* draw answered with a card or an empty card list) the interval timer is
\* eventually cancelled, after which no tick can send a draw request.
C19_PollingEventuallyStops == (Intervals # {}) ~> (Intervals = {} /\ ~ENABLED Tick)

C19_Witness ==
    /\ lastStep = "DrawEmpty"
    /\ Intervals = {}
    /\ drawsIssued > DeckSize

====
